---- MODULE Spec2Model ----
(***************************************************************************)
(* A model of sqlite_utils/db.py: Database and Table over one sqlite3      *)
(* connection.  The connection is modelled by the database it shows to its *)
(* own statements (view), the committed database (disk) and whether a      *)
(* transaction is open (in_tx).                                            *)
(***************************************************************************)
EXTENDS Integers, Sequences, FiniteSets, TLC

\* ------------------------------------------------------------------ bounds
\* Longest record list handed to insert_all.
MaxRecs == 2
\* Most rows a table may hold when a write to it is attempted.
MaxRows == 1
\* Largest explicit batch_size handed to insert_all.
MaxBatch == 2
\* Longest record list handed to detect_column_types on its own.
MaxInferRecs == 3
\* Longest foreign_keys list.
MaxFks == 2
\* Most calls that execute statements in one run.
MaxCalls == 3
\* The longest list and the largest batch size of the chunking runs.
MaxChunkRecs == 5
MaxChunkBatch == 3

\* batch_size=100, the default of insert_all
DefaultBatchSize == 100

\* ------------------------------------------------------------ Python values
\* A value is [k |-> type, n |-> number, s |-> text]; a float carries its
\* value in tenths (15 is 1.5).
Val(k, n, s) == [k |-> k, n |-> n, s |-> s]
PyNone == Val("NoneType", 0, "")
PyInt(n) == Val("int", n, "")
PyBool(b) == Val("bool", IF b THEN 1 ELSE 0, "")
PyFloat(tenths) == Val("float", tenths, "")
PyStr(s) == Val("str", 0, s)

Min(a, b) == IF a < b THEN a ELSE b

\* The field names in the order sorted() gives them.
KeyOrder == <<"id", "v", "w">>
Keys == {"id", "v"}

Range(f) == {f[i] : i \in DOMAIN f}
SeqsUpTo(S, n) == UNION {[1..m -> S] : m \in 0..n}

\* sorted(S) for a set of field names
Sorted(S) == SelectSeq(KeyOrder, LAMBDA k : k \in S)

\* record.items() / record.keys(): a record is a function from its keys to
\* values, written with its keys in sorted order.
Items(record) == Sorted(DOMAIN record)

\* ------------------------------------------------- Table.detect_column_types
RECURSIVE SeenKeysRepeated(_, _)
\* A mutant of the inference: a key is entered once for each record having it.
SeenKeysRepeated(records, i) ==
    IF i = 0 THEN <<>>
    ELSE SeenKeysRepeated(records, i - 1) \o Items(records[i])

RECURSIVE SeenKeys(_, _)
\* The keys of all_column_types in insertion order: setdefault adds a key the
\* first time a record has it.
SeenKeys(records, i) ==
    IF i = 0 THEN <<>>
    ELSE LET before == SeenKeys(records, i - 1)
         IN  before \o SelectSeq(Items(records[i]), LAMBDA k : k \notin Range(before))

\* A mutant of the inference: only the first value seen under a key counts.
all_column_types_first(records, key) ==
    {records[i][key].k :
        i \in {j \in 1..Len(records) :
                 /\ key \in DOMAIN records[j]
                 /\ \A l \in 1..j - 1 : key \notin DOMAIN records[l]}}

\* all_column_types[key]: the set of type(value) over the records having key
all_column_types(records, key) ==
    {records[i][key].k : i \in {j \in 1..Len(records) : key \in DOMAIN records[j]}}

\* A mutant of the widening: the float test is tried before the int test.
PickTypeFloatFirst(types) ==
    IF Cardinality(types) = 1 THEN CHOOSE t \in types : TRUE
    ELSE IF types \subseteq {"int", "float", "bool"} THEN "float"
    ELSE IF types \subseteq {"int", "bool"} THEN "int"
    ELSE "str"

\* The if/elif chain of detect_column_types over one key's types.
PickType(types) ==
    IF Cardinality(types) = 1 THEN CHOOSE t \in types : TRUE
    ELSE IF types \subseteq {"int", "bool"} THEN "int"
    ELSE IF types \subseteq {"int", "float", "bool"} THEN "float"
    ELSE "str"

\* A mutant of the inference: only the first record's keys are seen.
detect_first_record(records) ==
    LET keys == IF records = <<>> THEN <<>> ELSE Items(records[1])
    IN  [i \in 1..Len(keys) |->
            [name |-> keys[i], type |-> PickType(all_column_types(records, keys[i]))]]

\* The returned dict, as the sequence of its items.
detect_column_types(records) ==
    LET keys == SeenKeys(records, Len(records))
    IN  [i \in 1..Len(keys) |->
            [name |-> keys[i], type |-> PickType(all_column_types(records, keys[i]))]]

\* The col_type lookup of create_table.
StorageKeyword(t) ==
    CASE t = "float" -> "FLOAT"
      [] t = "int" -> "INTEGER"
      [] t = "bool" -> "INTEGER"
      [] t = "str" -> "TEXT"
      [] t = "NoneType" -> "TEXT"

\* --------------------------------------------------- the sqlite3 connection
\* What sqlite3 stores: NULL, INTEGER, REAL (in tenths) or TEXT.
Null == Val("null", 0, "")
SqlInt(n) == Val("integer", n, "")
SqlReal(tenths) == Val("real", tenths, "")
SqlText(s) == Val("text", 0, s)

\* The value bound for a Python value in `values`: bool is an int.
Bind(v) ==
    CASE v.k = "NoneType" -> Null
      [] v.k = "int" -> SqlInt(v.n)
      [] v.k = "bool" -> SqlInt(v.n)
      [] v.k = "float" -> SqlReal(v.n)
      [] v.k = "str" -> SqlText(v.s)

DigitText == <<"0", "1", "2", "3", "4", "5", "6", "7", "8", "9">>
IntText(n) == DigitText[n + 1]
RealText(tenths) == IntText(tenths \div 10) \o "." \o IntText(tenths % 10)

\* The value a column declared with a create_table keyword keeps for a bound
\* value (type affinity).  The texts of the model are no numerals: they stay
\* text in every column.
Affinity(type, x) ==
    CASE type = "TEXT" /\ x.k = "integer" -> SqlText(IntText(x.n))
      [] type = "TEXT" /\ x.k = "real" -> SqlText(RealText(x.n))
      [] type = "FLOAT" /\ x.k = "integer" -> SqlReal(10 * x.n)
      [] type = "INTEGER" /\ x.k = "real" /\ x.n % 10 = 0 -> SqlInt(x.n \div 10)
      [] OTHER -> x

\* A table: its columns in order, [name, type, pk, ref], and its rows in rowid
\* order, each a function from the column names.
NoTable == [present |-> FALSE, cols |-> <<>>, rows |-> <<>>]
ColNames(tbl) == {tbl.cols[i].name : i \in 1..Len(tbl.cols)}
ColDef(tbl, c) == tbl.cols[CHOOSE i \in 1..Len(tbl.cols) : tbl.cols[i].name = c]
PkCols(tbl) == {c \in ColNames(tbl) : ColDef(tbl, c).pk}

\* A statement handed to conn.execute, or a conn.commit().
Stmt(op, table, cols, rows, upsert) ==
    [op |-> op, table |-> table, cols |-> cols, rows |-> rows, upsert |-> upsert,
     err |-> ""]
CommitCall == Stmt("COMMIT", "", <<>>, <<>>, FALSE)

\* The connection while a method runs: R.view is the database its statements
\* see, R.disk the committed one, R.trace the execute and commit calls made so
\* far, R.err the exception raised, R.flag the handle's self.exists.
Failed(R) == R.err # ""
Raise(R, stmt, err) ==
    [R EXCEPT !.err = err, !.trace = Append(@, [stmt EXCEPT !.err = err])]

\* A schema statement changes the view; with no transaction open sqlite3 is
\* in autocommit mode and the change is on disk at once.
Ddl(R, stmt, db) ==
    [R EXCEPT !.view = db, !.disk = IF R.in_tx THEN @ ELSE db,
              !.trace = Append(@, stmt)]

\* conn.commit()
Commit(R) ==
    [R EXCEPT !.disk = R.view, !.in_tx = FALSE, !.trace = Append(@, CommitCall)]

\* conn.execute("CREATE TABLE ...")
ExecCreate(R, stmt) ==
    IF Len(stmt.cols) = 0 THEN Raise(R, stmt, "syntax error")
    ELSE IF R.view[stmt.table].present THEN Raise(R, stmt, "already exists")
    ELSE Ddl(R, stmt, [R.view EXCEPT ![stmt.table] =
                          [present |-> TRUE, cols |-> stmt.cols, rows |-> <<>>]])

\* conn.execute("DROP TABLE ...")
ExecDrop(R, stmt) ==
    IF ~R.view[stmt.table].present THEN Raise(R, stmt, "no such table")
    ELSE Ddl(R, stmt, [R.view EXCEPT ![stmt.table] = NoTable])

\* conn.execute("ALTER TABLE ... ADD COLUMN ... REFERENCES ..."): the engine
\* does not look the referenced table up.
ExecAlter(R, stmt) ==
    LET tbl == R.view[stmt.table]
        col == stmt.cols[1]
    IN  IF ~tbl.present THEN Raise(R, stmt, "no such table")
        ELSE IF col.name \in ColNames(tbl) THEN Raise(R, stmt, "duplicate column name")
        ELSE Ddl(R, stmt, [R.view EXCEPT ![stmt.table] =
                 [tbl EXCEPT !.cols = Append(@, col),
                             !.rows = [i \in 1..Len(tbl.rows) |->
                                 [c \in ColNames(tbl) \cup {col.name} |->
                                     IF c = col.name THEN Null ELSE tbl.rows[i][c]]]]])

Index(seq, x) == IF x \in Range(seq) THEN CHOOSE i \in 1..Len(seq) : seq[i] = x ELSE 0
MaxOf(S) == IF S = {} THEN 0 ELSE CHOOSE m \in S : \A x \in S : x <= m

\* The row one "(?, ?, ...)" group makes: a listed column keeps its bound
\* value under the column's affinity, a column not listed its default, NULL.
StoredRow(tbl, cols, vals) ==
    [c \in ColNames(tbl) |->
        IF Index(cols, c) # 0
        THEN Affinity(ColDef(tbl, c).type, Bind(vals[Index(cols, c)]))
        ELSE Null]

\* "INTEGER PRIMARY KEY" makes the column the rowid.
IsRowid(tbl, c) == ColDef(tbl, c).pk /\ ColDef(tbl, c).type = "INTEGER"

\* The rowid sqlite3 gives a row whose INTEGER PRIMARY KEY is NULL: one more
\* than the largest in the table.
AssignRowid(tbl, rows, p, row) ==
    IF IsRowid(tbl, p) /\ row[p].k = "null"
    THEN [row EXCEPT ![p] = SqlInt(MaxOf({rows[i][p].n : i \in 1..Len(rows)}) + 1)]
    ELSE row

\* A mutant of the statement's conflict clause: OR IGNORE, a key already in
\* the table leaves the old row.
PlaceRowIgnore(tbl, rows, p, row, upsert) ==
    IF IsRowid(tbl, p) /\ row[p].k # "integer"
    THEN [rows |-> rows, err |-> "datatype mismatch"]
    ELSE IF \E i \in 1..Len(rows) : rows[i][p] = row[p]
    THEN [rows |-> rows, err |-> IF upsert THEN "" ELSE "UNIQUE constraint failed"]
    ELSE IF IsRowid(tbl, p)
    THEN [rows |-> SelectSeq(rows, LAMBDA r : r[p].n < row[p].n) \o <<row>>
                   \o SelectSeq(rows, LAMBDA r : r[p].n > row[p].n),
          err |-> ""]
    ELSE [rows |-> Append(rows, row), err |-> ""]

\* A row into a table whose primary key is p: [rows, err].  A rowid must be
\* an integer; a key already in the table is an error, or with OR REPLACE the
\* old row is deleted.  A rowid table is kept in rowid order.
PlaceRow(tbl, rows, p, row, upsert) ==
    LET kept == SelectSeq(rows, LAMBDA r : ~(row[p].k # "null" /\ r[p] = row[p]))
    IN  IF IsRowid(tbl, p) /\ row[p].k # "integer"
        THEN [rows |-> rows, err |-> "datatype mismatch"]
        ELSE IF Len(kept) # Len(rows) /\ ~upsert
        THEN [rows |-> rows, err |-> "UNIQUE constraint failed"]
        ELSE IF IsRowid(tbl, p)
        THEN [rows |-> SelectSeq(kept, LAMBDA r : r[p].n < row[p].n) \o <<row>>
                       \o SelectSeq(kept, LAMBDA r : r[p].n > row[p].n),
              err |-> ""]
        ELSE [rows |-> Append(kept, row), err |-> ""]

\* One row of an INSERT [OR REPLACE] into the rows so far: [rows, err].
InsertRow(tbl, rows, cols, vals, upsert) ==
    IF PkCols(tbl) = {}
    THEN [rows |-> Append(rows, StoredRow(tbl, cols, vals)), err |-> ""]
    ELSE PlaceRow(tbl, rows, CHOOSE c \in PkCols(tbl) : TRUE,
                  AssignRowid(tbl, rows, CHOOSE c \in PkCols(tbl) : TRUE,
                              StoredRow(tbl, cols, vals)),
                  upsert)

RECURSIVE InsertRows(_, _, _)
\* The rows of one multi-row INSERT, in order; the first error ends it.
InsertRows(tbl, stmt, acc) ==
    IF acc.err # "" \/ acc.n = Len(stmt.rows) THEN acc
    ELSE InsertRows(tbl, stmt,
             [n |-> acc.n + 1] @@
             InsertRow(tbl, acc.rows, stmt.cols, stmt.rows[acc.n + 1], stmt.upsert))

\* The statement has run, with the rows and error res.
Inserted(R, stmt, res) ==
    IF res.err # "" THEN Raise([R EXCEPT !.in_tx = TRUE], stmt, res.err)
    ELSE [R EXCEPT !.view[stmt.table].rows = res.rows, !.in_tx = TRUE,
                   !.trace = Append(@, stmt)]

\* conn.execute("INSERT [OR REPLACE] INTO ...", values).  A statement that
\* does not compile raises before anything else; otherwise sqlite3 opens a
\* transaction for it if none is open, and a statement that fails while it
\* runs is undone as a whole and leaves that transaction open.
ExecInsert(R, stmt) ==
    IF Len(stmt.cols) = 0 \/ Len(stmt.rows) = 0 THEN Raise(R, stmt, "syntax error")
    ELSE IF ~R.view[stmt.table].present THEN Raise(R, stmt, "no such table")
    ELSE IF ~(Range(stmt.cols) \subseteq ColNames(R.view[stmt.table]))
    THEN Raise(R, stmt, "no column named")
    ELSE Inserted(R, stmt,
                  InsertRows(R.view[stmt.table], stmt,
                             [n |-> 0, rows |-> R.view[stmt.table].rows, err |-> ""]))

\* conn.execute(sql)
Execute(R, stmt) ==
    CASE stmt.op = "CREATE" -> ExecCreate(R, stmt)
      [] stmt.op = "DROP" -> ExecDrop(R, stmt)
      [] stmt.op = "ALTER" -> ExecAlter(R, stmt)
      [] stmt.op = "INSERT" -> ExecInsert(R, stmt)

\* ------------------------------------------------------------------ Database
\* Database.tables
tables(R) == {n \in DOMAIN R.view : R.view[n].present}

\* The CREATE TABLE statement create_table formats: a column per item, with
\* its storage keyword, " PRIMARY KEY" on the one named pk.
CreateSql(name, columns, pk) ==
    Stmt("CREATE", name,
         [i \in 1..Len(columns) |->
             [name |-> columns[i].name, type |-> StorageKeyword(columns[i].type),
              pk |-> (pk = columns[i].name), ref |-> <<>>]],
         <<>>, FALSE)

CommitIfOk(R) == IF Failed(R) THEN R ELSE Commit(R)

\* A mutant of create_table: it commits after its statement.
create_table_commits(R, name, columns, pk) ==
    CommitIfOk(Execute(R, CreateSql(name, columns, pk)))

\* Database.create_table: the statement is executed and no commit follows.
create_table(R, name, columns, pk) == Execute(R, CreateSql(name, columns, pk))

\* --------------------------------------------------------------------- Table
AlterSql(name, fk) ==
    Stmt("ALTER", name,
         <<[name |-> fk.column, type |-> fk.column_type, pk |-> FALSE,
            ref |-> <<fk.other_table, fk.other_column>>]>>, <<>>, FALSE)

\* Table.add_foreign_key: ALTER TABLE ... ADD COLUMN, then commit.
add_foreign_key(R, name, fk) == CommitIfOk(Execute(R, AlterSql(name, fk)))

\* A mutant of create: no foreign key is added.
AddForeignKeysSkipped(R, name, foreign_keys, i) == R

RECURSIVE AddForeignKeys(_, _, _, _)
\* for args in foreign_keys: self.add_foreign_key(*args); an exception, of
\* create_table before it or of an add_foreign_key, ends create.
AddForeignKeys(R, name, foreign_keys, i) ==
    IF Failed(R) \/ i > Len(foreign_keys) THEN R
    ELSE AddForeignKeys(add_foreign_key(R, name, foreign_keys[i]), name,
                        foreign_keys, i + 1)

\* A mutant of create's filter: foreign-key columns stay in the mapping.
KeptColumnsAll(columns, foreign_keys) == columns

\* The columns create keeps: those no foreign key names.
KeptColumns(columns, foreign_keys) ==
    SelectSeq(columns,
              LAMBDA c : c.name \notin {foreign_keys[i].column : i \in 1..Len(foreign_keys)})

\* A mutant of create: the flag is set whether or not an exception left it.
SetExistsAlways(R) == [R EXCEPT !.flag = TRUE]

\* self.exists = True, the last statement of create
SetExists(R) == IF Failed(R) THEN R ELSE [R EXCEPT !.flag = TRUE]

\* A mutant of create: the flag is set as soon as the table is created.
create_flag_early(R, name, columns, pk, foreign_keys) ==
    AddForeignKeys(
        SetExists(create_table(R, name, KeptColumns(columns, foreign_keys), pk)),
        name, foreign_keys, 1)

\* A mutant of create: a handle whose flag is set creates nothing.
create_once(R, name, columns, pk, foreign_keys) ==
    IF R.flag THEN R
    ELSE SetExists(AddForeignKeys(
             create_table(R, name, KeptColumns(columns, foreign_keys), pk),
             name, foreign_keys, 1))

\* Table.create
create(R, name, columns, pk, foreign_keys) ==
    SetExists(AddForeignKeys(
        create_table(R, name, KeptColumns(columns, foreign_keys), pk),
        name, foreign_keys, 1))

\* A mutant of drop: it clears the handle's flag.
drop_clears(R, name) ==
    [Execute(R, Stmt("DROP", name, <<>>, <<>>, FALSE)) EXCEPT !.flag = FALSE]

\* Table.drop
drop(R, name) == Execute(R, Stmt("DROP", name, <<>>, <<>>, FALSE))

CeilDiv(n, d) == (n + d - 1) \div d

\* A mutant of chunks: a last slice shorter than size is not yielded.
chunks_whole_only(sequence, size) ==
    [j \in 1..(Len(sequence) \div size) |->
        SubSeq(sequence, (j - 1) * size + 1, j * size)]

\* chunks(sequence, size): sequence[i : i + size] for i in range(0, len, size)
chunks(sequence, size) ==
    [j \in 1..CeilDiv(Len(sequence), size) |->
        SubSeq(sequence, (j - 1) * size + 1, Min(j * size, Len(sequence)))]

\* record.get(key, None)
Get(record, key) == IF key \in DOMAIN record THEN record[key] ELSE PyNone

\* A mutant of all_columns: the keys of the first record only.
AllColumnsOfFirst(records) ==
    IF Len(records) = 0 THEN <<>> ELSE Sorted(DOMAIN records[1])

\* all_columns: the sorted union of the keys of every record
AllColumns(records) == Sorted(UNION {DOMAIN records[i] : i \in 1..Len(records)})

\* A mutant of the statement: it names the keys of its own chunk.
InsertSqlOwnKeys(name, all_columns, chunk, upsert) ==
    Stmt("INSERT", name, AllColumns(chunk),
         [i \in 1..Len(chunk) |->
             [j \in 1..Len(AllColumns(chunk)) |-> Get(chunk[i], AllColumns(chunk)[j])]],
         upsert)

\* The statement and the values of one chunk.
InsertSql(name, all_columns, chunk, upsert) ==
    Stmt("INSERT", name, all_columns,
         [i \in 1..Len(chunk) |->
             [j \in 1..Len(all_columns) |-> Get(chunk[i], all_columns[j])]],
         upsert)

\* A mutant of the loop: the return sits inside it, so only the first chunk
\* is written.
InsertChunksFirstOnly(R, name, all_columns, cs, upsert, i) ==
    IF Failed(R) \/ i > Len(cs) THEN R
    ELSE CommitIfOk(Execute(R, InsertSql(name, all_columns, cs[i], upsert)))

RECURSIVE InsertChunksOneCommit(_, _, _, _, _, _)
\* A mutant of the loop: one commit follows the loop, none follows a chunk.
InsertChunksOneCommit(R, name, all_columns, cs, upsert, i) ==
    IF Failed(R) THEN R
    ELSE IF i > Len(cs) THEN Commit(R)
    ELSE InsertChunksOneCommit(
             Execute(R, InsertSql(name, all_columns, cs[i], upsert)),
             name, all_columns, cs, upsert, i + 1)

RECURSIVE InsertChunks(_, _, _, _, _, _)
\* The loop of insert_all over the chunks: execute, then commit; an
\* exception, of create before it or of an execute, ends insert_all.
InsertChunks(R, name, all_columns, cs, upsert, i) ==
    IF Failed(R) \/ i > Len(cs) THEN R
    ELSE InsertChunks(
             CommitIfOk(Execute(R, InsertSql(name, all_columns, cs[i], upsert))),
             name, all_columns, cs, upsert, i + 1)

\* if not self.exists: self.create(self.detect_column_types(records), ...)
\* A mutant of insert_all: the table is created whatever the flag.
EnsureCreatedAlways(R, name, records, pk, foreign_keys) ==
    create(R, name, detect_column_types(records), pk, foreign_keys)

EnsureCreated(R, name, records, pk, foreign_keys) ==
    IF R.flag THEN R
    ELSE create(R, name, detect_column_types(records), pk, foreign_keys)

\* return result: with no chunk the loop never assigned it and this raises.
Return(R, cs) ==
    IF ~Failed(R) /\ Len(cs) = 0 THEN [R EXCEPT !.err = "UnboundLocalError"] ELSE R

\* Table.insert_all
insert_all(R, name, records, pk, foreign_keys, upsert, batch_size) ==
    Return(InsertChunks(EnsureCreated(R, name, records, pk, foreign_keys), name,
                        AllColumns(records), chunks(records, batch_size), upsert, 1),
           chunks(records, batch_size))

\* The statements Table.columns executes: none for a handle whose flag is
\* unset.
ColumnsQuery(R, name) ==
    IF ~R.flag THEN <<>> ELSE <<Stmt("PRAGMA", name, <<>>, <<>>, FALSE)>>

\* A mutant of columns: the flag is not read.
columns_unguarded(R, name) ==
    [i \in 1..Len(R.view[name].cols) |->
        [cid |-> i - 1, name |-> R.view[name].cols[i].name,
         type |-> R.view[name].cols[i].type, notnull |-> 0,
         default_value |-> PyNone,
         is_pk |-> IF R.view[name].cols[i].pk THEN 1 ELSE 0]]

\* Table.columns: [] for a handle whose flag is unset, else PRAGMA table_info.
columns(R, name) ==
    IF ~R.flag THEN <<>>
    ELSE [i \in 1..Len(R.view[name].cols) |->
            [cid |-> i - 1, name |-> R.view[name].cols[i].name,
             type |-> R.view[name].cols[i].type, notnull |-> 0,
             default_value |-> PyNone,
             is_pk |-> IF R.view[name].cols[i].pk THEN 1 ELSE 0]]

\* ------------------------------------------------------------ the inputs
Names == {"t"}
Handles == {"h1", "h2"}
NoName == "-"
NoHandle == "-"
NoPk == "None"

\* The records over the fields ks: id is 1 or 2, v is 1 or "s".
FieldVals(k) == IF k = "id" THEN {PyInt(1), PyInt(2)} ELSE {PyInt(1), PyStr("s")}
RecordsOver(ks) ==
    UNION {{r \in [D -> UNION {FieldVals(k) : k \in ks}] : \A k \in D : r[k] \in FieldVals(k)}
            : D \in SUBSET ks}
Rec(id, v) ==
    [k \in (IF id = 0 THEN {} ELSE {"id"}) \cup (IF v = PyNone THEN {} ELSE {"v"}) |->
        IF k = "id" THEN PyInt(id) ELSE v]
\* The records written through the writer's handle.
Records ==
    {Rec(1, PyNone), Rec(1, PyStr("s")), Rec(2, PyInt(1)), Rec(0, PyStr("s")),
     Rec(0, PyNone)}
RecordLists == SeqsUpTo(Records, MaxRecs)

\* The columns mappings handed to create and create_table.
ColumnMaps ==
    {SelectSeq(<<[name |-> "id", type |-> ti], [name |-> "v", type |-> tv]>>,
               LAMBDA c : c.type # "-") : ti \in {"-", "int"}, tv \in {"-", "str"}}
Pks == {NoPk, "id"}
Fk(column, column_type) ==
    [column |-> column, column_type |-> column_type, other_table |-> "other",
     other_column |-> "id"]
FkSpecs == {Fk("v", "INTEGER"), Fk("w", "TEXT")}
FkLists == SeqsUpTo(FkSpecs, MaxFks)
\* The foreign_keys lists handed to the insert methods.
InsertFkLists == SeqsUpTo({Fk("v", "INTEGER")}, MaxFks)
BatchSizes == 1..MaxBatch

\* ------------------------------------------------------------------- state
\* view, disk, in_tx: the connection.  hname, exists: each Table handle's
\* self.name (NoName before the handle is made) and self.exists.  last: the
\* last call, its arguments and what it did.  probe: the records handed to
\* detect_column_types on its own, and its result.  ncalls: the calls made
\* that execute statements.
VARIABLES view, disk, in_tx, hname, exists, last, ncalls, probe

vars == <<view, disk, in_tx, hname, exists, last, ncalls, probe>>

Call(op, h, name) ==
    [op |-> op, h |-> h, name |-> name, records |-> <<>>, columns |-> <<>>,
     pk |-> NoPk, foreign_keys |-> <<>>, upsert |-> FALSE, batch_size |-> 0,
     pre_exists |-> FALSE, pre_present |-> FALSE, err |-> "", trace |-> <<>>,
     ret |-> <<>>]

\* Database(conn) on an empty database, no handle made yet.
Init ==
    /\ view = [n \in Names |-> NoTable]
    /\ disk = [n \in Names |-> NoTable]
    /\ in_tx = FALSE
    /\ hname = [h \in Handles |-> NoName]
    /\ exists = [h \in Handles |-> FALSE]
    /\ last = Call("init", NoHandle, NoName)
    /\ ncalls = 0
    /\ probe = [records |-> <<>>, types |-> <<>>, sql |-> <<>>, done |-> TRUE]

\* The connection as a method of handle flag finds it.
Conn(flag) ==
    [view |-> view, disk |-> disk, in_tx |-> in_tx, flag |-> flag, trace |-> <<>>,
     err |-> ""]

\* What a method leaves: the connection, the handle's flag, the call.
Leave(R, h, call) ==
    /\ view' = R.view
    /\ disk' = R.disk
    /\ in_tx' = R.in_tx
    /\ exists' = IF h = NoHandle THEN exists ELSE [exists EXCEPT ![h] = R.flag]
    /\ last' = [call EXCEPT !.err = R.err, !.trace = R.trace,
                            !.pre_exists = (h # NoHandle /\ exists[h]),
                            !.pre_present = view[call.name].present]
    /\ ncalls' = ncalls + 1
    /\ UNCHANGED probe

\* db[table_name]: Table.__init__ reads db.tables once.
GetItem(h, n) ==
    /\ hname[h] = NoName
    /\ hname' = [hname EXCEPT ![h] = n]
    /\ exists' = [exists EXCEPT ![h] = n \in tables(Conn(FALSE))]
    /\ last' = Call("getitem", h, n)
    /\ UNCHANGED <<view, disk, in_tx, ncalls, probe>>

\* table.create(columns, pk, foreign_keys)
Create(h, cols, pk, fks) ==
    /\ hname[h] # NoName
    /\ ncalls < MaxCalls
    /\ Leave(create(Conn(exists[h]), hname[h], cols, pk, fks), h,
             [Call("create", h, hname[h]) EXCEPT !.columns = cols, !.pk = pk,
                                                 !.foreign_keys = fks])
    /\ UNCHANGED hname

\* table.drop()
Drop(h) ==
    /\ hname[h] # NoName
    /\ ncalls < MaxCalls
    /\ Leave(drop(Conn(exists[h]), hname[h]), h, Call("drop", h, hname[h]))
    /\ UNCHANGED hname

\* table.add_foreign_key(column, column_type, other_table, other_column)
AddForeignKey(h, fk) ==
    /\ hname[h] # NoName
    /\ ncalls < MaxCalls
    /\ Leave(add_foreign_key(Conn(exists[h]), hname[h], fk), h,
             [Call("add_foreign_key", h, hname[h]) EXCEPT !.foreign_keys = <<fk>>])
    /\ UNCHANGED hname

\* A write is attempted on a table of at most MaxRows rows.  A handle whose
\* flag is set never reads pk and foreign_keys: only their defaults are
\* enumerated for it.
Writable(h, pk, fks) ==
    /\ hname[h] # NoName
    /\ ncalls < MaxCalls
    /\ Len(view[hname[h]].rows) <= MaxRows
    /\ exists[h] => pk = NoPk /\ fks = <<>>

InsertAllCall(h, records, pk, fks, upsert, batch_size) ==
    /\ Leave(insert_all(Conn(exists[h]), hname[h], records, pk, fks, upsert, batch_size),
             h, [Call("insert_all", h, hname[h]) EXCEPT
                    !.records = records, !.pk = pk, !.foreign_keys = fks,
                    !.upsert = upsert, !.batch_size = batch_size])
    /\ UNCHANGED hname

\* table.insert_all(records, pk, foreign_keys, upsert, batch_size)
InsertAll(h, records, pk, fks, upsert, batch_size) ==
    /\ Writable(h, pk, fks)
    /\ InsertAllCall(h, records, pk, fks, upsert, batch_size)

\* table.insert(record, pk, foreign_keys, upsert)
Insert(h, record, pk, fks, upsert) ==
    /\ Writable(h, pk, fks)
    /\ InsertAllCall(h, <<record>>, pk, fks, upsert, DefaultBatchSize)

\* table.upsert(record, pk, foreign_keys)
Upsert(h, record, pk, fks) ==
    /\ Writable(h, pk, fks)
    /\ InsertAllCall(h, <<record>>, pk, fks, TRUE, DefaultBatchSize)

\* table.upsert_all(records, pk, foreign_keys)
UpsertAll(h, records, pk, fks) ==
    /\ Writable(h, pk, fks)
    /\ InsertAllCall(h, records, pk, fks, TRUE, DefaultBatchSize)

\* db.create_table(name, columns, pk): the returned handle, db[name], is kept
\* in a free slot h or dropped (NoHandle).
Created(R, n, cols, pk, h) ==
    /\ Leave([R EXCEPT !.flag = n \in tables(R)], IF Failed(R) THEN NoHandle ELSE h,
             [Call("create_table", IF Failed(R) THEN NoHandle ELSE h, n) EXCEPT
                 !.columns = cols, !.pk = pk])
    /\ hname' = IF Failed(R) \/ h = NoHandle THEN hname ELSE [hname EXCEPT ![h] = n]

DbCreateTable(n, cols, pk, h) ==
    /\ ncalls < MaxCalls
    /\ h # NoHandle => hname[h] = NoName
    /\ Created(create_table(Conn(FALSE), n, cols, pk), n, cols, pk, h)

\* table.columns
Columns(h) ==
    /\ hname[h] # NoName
    /\ ncalls < MaxCalls
    /\ last' = [Call("columns", h, hname[h]) EXCEPT
                   !.ret = columns(Conn(exists[h]), hname[h]),
                   !.trace = ColumnsQuery(Conn(exists[h]), hname[h]),
                   !.pre_exists = exists[h], !.pre_present = view[hname[h]].present]
    /\ ncalls' = ncalls + 1
    /\ UNCHANGED <<view, disk, in_tx, hname, exists, probe>>

\* The schema and handle operations, with writes of a few small records.
Next ==
    \/ \E h \in Handles, n \in Names : GetItem(h, n)
    \/ \E h \in Handles, cols \in ColumnMaps, pk \in Pks, fks \in FkLists :
          Create(h, cols, pk, fks)
    \/ \E n \in Names, cols \in ColumnMaps, pk \in Pks, h \in Handles \cup {NoHandle} :
          DbCreateTable(n, cols, pk, h)
    \/ \E h \in Handles : Drop(h)
    \/ \E h \in Handles, fk \in FkSpecs : AddForeignKey(h, fk)
    \/ \E h \in Handles, records \in SeqsUpTo(RecordsOver({"id"}), MaxRecs), pk \in Pks,
          batch_size \in BatchSizes : InsertAll(h, records, pk, <<>>, FALSE, batch_size)
    \/ \E h \in Handles : Columns(h)

Spec == Init /\ [][Next]_vars

\* The writes through one handle, with every record list of the model.
Writer == "h1"
NextWrite ==
    \/ \E n \in Names : GetItem(Writer, n)
    \/ Drop(Writer)
    \/ \E records \in RecordLists, pk \in Pks, fks \in InsertFkLists,
          upsert \in BOOLEAN, batch_size \in BatchSizes :
          InsertAll(Writer, records, pk, fks, upsert, batch_size)
    \/ \E record \in Records, pk \in Pks, upsert \in BOOLEAN :
          Insert(Writer, record, pk, <<>>, upsert)
    \/ \E record \in Records, pk \in Pks : Upsert(Writer, record, pk, <<>>)
    \/ \E records \in RecordLists, pk \in Pks : UpsertAll(Writer, records, pk, <<>>)

SpecWrite == Init /\ [][NextWrite]_vars

\* The records {id: 1} .. {id: n}
NumberedRecords(n) == [i \in 1..n |-> Rec(i, PyNone)]

\* table.insert_all(records, batch_size=b) of n records
InsertMany(n, b) ==
    /\ hname[Writer] # NoName
    /\ ncalls < MaxCalls
    /\ InsertAllCall(Writer, NumberedRecords(n), NoPk, <<>>, FALSE, b)

\* Writes of longer lists in small batches through one handle.
NextChunks ==
    \/ \E n \in Names : GetItem(Writer, n)
    \/ \E n \in 0..MaxChunkRecs, b \in 1..MaxChunkBatch : InsertMany(n, b)

SpecChunks == Init /\ [][NextChunks]_vars

\* ------------------------------------------------ type inference on its own
\* The records handed to detect_column_types: v of every type, id absent, an
\* int or a str.
InferVals(k) ==
    IF k = "id" THEN {PyInt(1), PyStr("s")}
    ELSE {PyInt(1), PyInt(2), PyBool(TRUE), PyFloat(15), PyStr("s"), PyNone}
InferRecords ==
    UNION {{r \in [D -> InferVals("id") \cup InferVals("v")] : \A k \in D : r[k] \in InferVals(k)}
            : D \in SUBSET Keys}

InitInfer ==
    /\ view = [n \in Names |-> NoTable]
    /\ disk = [n \in Names |-> NoTable]
    /\ in_tx = FALSE
    /\ hname = [h \in Handles |-> NoName]
    /\ exists = [h \in Handles |-> FALSE]
    /\ last = Call("init", NoHandle, NoName)
    /\ ncalls = 0
    /\ probe \in {[records |-> rs, types |-> <<>>, sql |-> <<>>, done |-> FALSE]
                    : rs \in SeqsUpTo(InferRecords, MaxInferRecs)}

\* detect_column_types(records), and the columns create_table declares for
\* its result.
Detect ==
    /\ ~probe.done
    /\ probe' = [probe EXCEPT
                    !.types = detect_column_types(probe.records),
                    !.sql = CreateSql("t", detect_column_types(probe.records), NoPk).cols,
                    !.done = TRUE]
    /\ UNCHANGED <<view, disk, in_tx, hname, exists, last, ncalls>>

SpecInfer == InitInfer /\ [][Detect]_vars

\* ------------------------------------------------------------------- claims
\* The types observed for field key in the probe's records.
Observed(key) ==
    {probe.records[i][key].k :
        i \in {j \in 1..Len(probe.records) : key \in DOMAIN probe.records[j]}}

\* The widening policy as one rule: text as soon as a text or a
\* null was seen, else floating-point as soon as one was seen, else integer.
Widened(kinds) ==
    IF kinds \cap {"str", "NoneType"} # {} THEN "TEXT"
    ELSE IF "float" \in kinds THEN "FLOAT"
    ELSE "INTEGER"

\* The rows of the widening table.
WideningTable ==
    <<  <<{"int"}, "INTEGER">>, <<{"int", "bool"}, "INTEGER">>,
        <<{"int", "float"}, "FLOAT">>, <<{"int", "bool", "float"}, "FLOAT">>,
        <<{"str"}, "TEXT">>, <<{"int", "str"}, "TEXT">>, <<{"NoneType", "int"}, "TEXT">>,
        <<{"bool"}, "INTEGER">>, <<{"float"}, "FLOAT">> >>

\* C1: the column type declared for a field is a function of the set of types
\* observed for it alone, and it is the one the widening table gives: {int} ->
\* INTEGER, {int, bool} -> INTEGER, {int, float} -> FLOAT, {int, bool, float}
\* -> FLOAT, {str} -> TEXT, {int, str} -> TEXT, {None, int} -> TEXT, a single
\* type directly with bool as INTEGER.
C1_WideningTable ==
    probe.done =>
        \A i \in 1..Len(probe.sql) :
            /\ probe.sql[i].type = Widened(Observed(probe.sql[i].name))
            /\ \A j \in 1..Len(WideningTable) :
                  Observed(probe.sql[i].name) = WideningTable[j][1]
                      => probe.sql[i].type = WideningTable[j][2]

\* C1 witness: a field seen as int, bool and float was declared.
C1_Witness ==
    /\ probe.done
    /\ \E i \in 1..Len(probe.sql) :
          /\ Observed(probe.sql[i].name) = {"int", "bool", "float"}
          /\ probe.sql[i].type = "FLOAT"

\* The Python value a SELECT gives back for a stored value.
ReadBack(x) ==
    CASE x.k = "null" -> PyNone
      [] x.k = "integer" -> PyInt(x.n)
      [] x.k = "real" -> PyFloat(x.n)
      [] x.k = "text" -> PyStr(x.s)

\* Python's ==: numbers compare by value (True == 1 == 1.0), text with text,
\* None with None.
Tenths(v) == IF v.k = "float" THEN v.n ELSE 10 * v.n
IsNumber(v) == v.k \in {"int", "bool", "float"}
PyEq(a, b) ==
    IF IsNumber(a) /\ IsNumber(b) THEN Tenths(a) = Tenths(b)
    ELSE a.k = b.k /\ a.s = b.s

KeySets(records) == {DOMAIN records[i] : i \in 1..Len(records)}
TheTable == view[last.name]

\* insert_all(records), pk and foreign_keys left at their defaults, of a
\* non-empty batch with different key sets, through a handle whose flag is
\* unset, on a table the database does not have.
C2_Case ==
    /\ last.op = "insert_all"
    /\ ~last.pre_exists /\ ~last.pre_present
    /\ last.pk = NoPk /\ last.foreign_keys = <<>>
    /\ Cardinality(KeySets(last.records)) > 1

\* Row i holds what record i has, each value as Keeps(column, value) gives it,
\* and NULL in the columns the record has no key for.
RowsHold(Keeps(_, _)) ==
    /\ Len(TheTable.rows) = Len(last.records)
    /\ \A i \in 1..Len(last.records) : \A c \in ColNames(TheTable) :
          IF c \in DOMAIN last.records[i]
          THEN Keeps(c, last.records[i][c]) = TheTable.rows[i][c]
          ELSE TheTable.rows[i][c] = Null
TableMade ==
    /\ last.err = ""
    /\ TheTable.present /\ disk = view
    /\ ColNames(TheTable) = UNION KeySets(last.records)

Rerun(b) ==
    insert_all(Conn(exists[last'.h]), last'.name, last'.records, last'.pk,
               last'.foreign_keys, last'.upsert, b)

Inserts(trace) == SelectSeq(trace, LAMBDA st : st.op = "INSERT")

\* The chunk whose statement raised in call, 0 if none did.
FailedChunk(call) ==
    IF /\ call.op = "insert_all"
       /\ Len(call.trace) > 0
       /\ call.trace[Len(call.trace)].op = "INSERT"
       /\ call.trace[Len(call.trace)].err # ""
    THEN Len(Inserts(call.trace))
    ELSE 0

\* The call just made, from the state it was made in, with only its first k
\* chunks.
FirstChunks(k) ==
    InsertChunks(
        EnsureCreated(Conn(exists[last'.h]), last'.name, last'.records, last'.pk,
                      last'.foreign_keys),
        last'.name, AllColumns(last'.records),
        SubSeq(chunks(last'.records, last'.batch_size), 1, k), last'.upsert, 1)

\* C4: when the statement of chunk k raises, the statements run were those of
\* chunks 1..k in order and nothing after the failing one, a commit followed
\* each of the first k-1, and what is committed is what the first k-1 chunks
\* wrote, with nothing of them undone.
C4_PerChunkCommit ==
    [][FailedChunk(last') > 0 =>
        LET k == FailedChunk(last')
            cs == chunks(last'.records, last'.batch_size)
            tr == last'.trace
        IN  /\ k <= Len(cs)
            /\ \A i \in 1..k :
                  /\ Inserts(tr)[i].rows =
                        InsertSql(last'.name, AllColumns(last'.records), cs[i],
                                  last'.upsert).rows
                  /\ i < k => Inserts(tr)[i].err = ""
            /\ \A j \in 1..Len(tr) - 1 :
                  tr[j].op = "INSERT" => tr[j + 1].op = "COMMIT"
            /\ k > 1 => /\ disk' = view'
                        /\ disk' = FirstChunks(k - 1).disk]_vars

\* C4 witness: the second chunk of a write raised and the first chunk's row
\* is committed.
C4_Witness ==
    /\ FailedChunk(last) = 2
    /\ Len(chunks(last.records, last.batch_size)) = 2
    /\ ~last.pre_present
    /\ Len(disk[last.name].rows) = 1

\* An upsert of one record that has the primary key, into a table holding a
\* row with that key, has completed.
C5_Case(p) ==
    /\ last'.op = "insert_all" /\ last'.upsert /\ last'.err = ""
    /\ Len(last'.records) = 1
    /\ view[last'.name].present
    /\ p \in PkCols(view[last'.name]) /\ p \in DOMAIN last'.records[1]
    /\ \E i \in 1..Len(view[last'.name].rows) :
          view[last'.name].rows[i][p] =
              Affinity(ColDef(view[last'.name], p).type, Bind(last'.records[1][p]))

\* The rows of the table after the call whose key is the record's.
C5_Rows(p) ==
    SelectSeq(view'[last'.name].rows,
              LAMBDA r : PyEq(ReadBack(r[p]), last'.records[1][p]))

C6_EmptyRecords ==
    [][last'.op = "insert_all" /\ last'.records = <<>> /\ ~exists[last'.h] =>
          /\ view' = view /\ disk' = disk
          /\ ~exists'[last'.h]
          /\ Inserts(last'.trace) = <<>>]_vars

\* C6 witness: the first call ever made on the database was an insert_all of
\* an empty list through a handle whose flag was unset, the pk argument given.
C6_Witness ==
    /\ last.op = "insert_all" /\ last.records = <<>> /\ last.pk = "id"
    /\ ~last.pre_exists /\ ~last.pre_present
    /\ ncalls = 1
    /\ tables(Conn(FALSE)) = {}
    /\ ~exists[last.h]

\* C7: no step clears a handle's flag, and drop changes no flag: not the
\* dropping handle's, not that of another handle to the table.
C7_FlagNeverCleared ==
    [][/\ \A h \in Handles : exists[h] => exists'[h]
       /\ last'.op = "drop" /\ ncalls' # ncalls => exists' = exists]_vars

\* C7 witness: one of two handles to a table has dropped it and both flags
\* are still set.
C7_Witness ==
    /\ last.op = "drop" /\ last.err = "" /\ last.pre_present
    /\ ~view[last.name].present
    /\ exists[last.h]
    /\ \E h \in Handles \ {last.h} : hname[h] = last.name /\ exists[h]

SchemaOps == {"create_table", "add_foreign_key", "create"}

\* C9 as stated: when a schema operation returns, its change is committed.
C9_Original ==
    last.op \in SchemaOps /\ last.err = "" => disk = view

\* C9, amended: add_foreign_key commits after its statement, so when it
\* returns everything is committed; create_table executes its statement and
\* calls no commit, so its table is committed when it returns if no
\* transaction was open and pending otherwise; create sets the handle's flag,
\* and so is the flag of the handle create_table returns.
C9_SchemaCommits ==
    [][last'.op \in SchemaOps /\ last'.err = "" /\ ncalls' # ncalls =>
          /\ last'.op = "add_foreign_key" =>
                /\ Len(last'.trace) = 2
                /\ last'.trace[1].op = "ALTER" /\ last'.trace[2].op = "COMMIT"
                /\ disk' = view' /\ ~in_tx'
          /\ last'.op = "create_table" =>
                /\ Len(last'.trace) = 1 /\ last'.trace[1].op = "CREATE"
                /\ in_tx' = in_tx
                /\ view'[last'.name].present
                /\ disk'[last'.name] = IF in_tx THEN disk[last'.name]
                                      ELSE view'[last'.name]
                /\ last'.h # NoHandle => exists'[last'.h]
          /\ last'.op = "create" =>
                /\ exists'[last'.h]
                /\ view'[last'.name].present
                /\ last'.foreign_keys # <<>> => disk' = view' /\ ~in_tx'
                /\ last'.foreign_keys = <<>> =>
                      disk'[last'.name] = IF in_tx THEN disk[last'.name]
                                          ELSE view'[last'.name]]_vars

\* C9 witness: create_table has returned inside an open transaction and its
\* table is not committed.
C9_Witness ==
    /\ last.op = "create_table" /\ last.err = ""
    /\ in_tx
    /\ view[last.name].present
    /\ disk[last.name] # view[last.name]

Alters(trace) == SelectSeq(trace, LAMBDA st : st.op = "ALTER")
FkColumns(foreign_keys) == {foreign_keys[i].column : i \in 1..Len(foreign_keys)}
NamesOf(cols) == [i \in 1..Len(cols) |-> cols[i].name]

\* C10: create's first statement is the CREATE TABLE, with the columns of the
\* mapping no foreign key names, typed by the mapping, and none a foreign key
\* names; the ALTER statements that follow add the foreign keys' columns, one
\* each, in the order given, with the given type, up to the first that raises;
\* when create returns the table has the mapping's columns, then the foreign
\* keys' columns.
C10_CreateWithForeignKeys ==
    last.op = "create" =>
        LET fks == last.foreign_keys
            made == last.trace[1].cols
            alt == Alters(last.trace)
        IN  /\ Len(last.trace) >= 1 /\ last.trace[1].op = "CREATE"
            /\ Len(Inserts(last.trace)) = 0
            /\ \A j \in 2..Len(last.trace) : last.trace[j].op \in {"ALTER", "COMMIT"}
            /\ \A i \in 1..Len(made) : made[i].name \notin FkColumns(fks)
            /\ NamesOf(made) =
                  NamesOf(SelectSeq(last.columns,
                                    LAMBDA c : c.name \notin FkColumns(fks)))
            /\ \A i \in 1..Len(made) : \E c \in Range(last.columns) :
                  c.name = made[i].name /\ made[i].type = StorageKeyword(c.type)
            /\ Len(alt) <= Len(fks)
            /\ \A i \in 1..Len(alt) :
                  /\ Len(alt[i].cols) = 1
                  /\ alt[i].cols[1].name = fks[i].column
                  /\ alt[i].cols[1].type = fks[i].column_type
                  /\ alt[i].cols[1].ref = <<fks[i].other_table, fks[i].other_column>>
                  /\ i < Len(alt) => alt[i].err = ""
            /\ last.err = "" =>
                  /\ Len(alt) = Len(fks)
                  /\ NamesOf(TheTable.cols) =
                        NamesOf(made) \o [i \in 1..Len(fks) |-> fks[i].column]
                  /\ \A i \in 1..Len(fks) :
                        ColDef(TheTable, fks[i].column).type = fks[i].column_type

\* C10 witness: a create with a mapping of two columns, one of them named by
\* the first of two foreign keys, has returned.
C10_Witness ==
    /\ last.op = "create" /\ last.err = ""
    /\ Len(last.columns) = 2 /\ Len(last.foreign_keys) = 2
    /\ last.foreign_keys[1].column = "v" /\ last.foreign_keys[2].column = "w"
    /\ NamesOf(TheTable.cols) = <<"id", "v", "w">>
    /\ ColDef(TheTable, "v").type = "INTEGER"

\* insert_all through a handle whose flag was unset, on a table the database
\* did not have, has created the table: create returned and set the flag.
C11_Case ==
    /\ last.op = "insert_all"
    /\ ~last.pre_exists /\ ~last.pre_present
    /\ exists[last.h]

\* C11 as stated: the created table's column names are the union of the
\* records' keys minus the keys the foreign keys name.
C11_Original ==
    C11_Case =>
        ColNames(TheTable) =
            UNION KeySets(last.records) \ FkColumns(last.foreign_keys)

\* C11, amended: the columns of the CREATE TABLE statement are the union of
\* the records' keys minus those the foreign keys name; the foreign keys'
\* columns are then added, so the table's column names are that difference
\* together with the foreign keys' columns.
C11_InferredColumns ==
    C11_Case =>
        /\ last.trace[1].op = "CREATE"
        /\ {last.trace[1].cols[i].name : i \in 1..Len(last.trace[1].cols)} =
              UNION KeySets(last.records) \ FkColumns(last.foreign_keys)
        /\ ColNames(TheTable) =
              (UNION KeySets(last.records) \ FkColumns(last.foreign_keys))
                  \cup FkColumns(last.foreign_keys)
        /\ \A c \in ColNames(TheTable) :
              (ColDef(TheTable, c).ref # <<>>) <=> c \in FkColumns(last.foreign_keys)

\* C11 witness: records with different key sets, one key named by a foreign
\* key, created a table that has the foreign key's column.
C11_Witness ==
    /\ C11_Case
    /\ Cardinality(KeySets(last.records)) > 1
    /\ last.foreign_keys # <<>>
    /\ "v" \in UNION KeySets(last.records)
    /\ ColNames(TheTable) = {"id", "v"}
    /\ ColDef(TheTable, "v").ref # <<>>

\* C12 as stated: no insert_all fails because the table has no column for a
\* key of a record.
C12_Original ==
    last.op = "insert_all" => last.err # "no column named"

\* C12, amended: when insert_all creates the table, the table has a column
\* for every key of every record and no statement fails for want of one; on
\* a table that existed before the call no column is added, and the call
\* raises "no column" exactly when a record has a key the table has no column
\* for, its first statement failing and nothing written.
C12_KeysAccommodated ==
    [][last'.op = "insert_all" /\ last'.records # <<>> =>
          /\ ~exists[last'.h] /\ exists'[last'.h] =>
                /\ UNION KeySets(last'.records) \subseteq ColNames(view'[last'.name])
                /\ last'.err # "no column named"
          /\ exists[last'.h] /\ view[last'.name].present =>
                /\ view'[last'.name].cols = view[last'.name].cols
                /\ last'.err = "no column named" <=>
                      ~(UNION KeySets(last'.records)
                            \subseteq ColNames(view[last'.name]))
                /\ last'.err = "no column named" =>
                      /\ Len(last'.trace) = 1
                      /\ view' = view /\ disk' = disk]_vars

\* C12 witness: a write to a table that existed raised because a record had
\* a key the table has no column for.
C12_Witness ==
    /\ last.op = "insert_all" /\ last.err = "no column named"
    /\ last.pre_exists /\ last.pre_present
    /\ "v" \in UNION KeySets(last.records)
    /\ "v" \notin ColNames(TheTable)
    /\ Len(TheTable.rows) = 1

\* The records of the probe in the order f.
Permuted(f) == [i \in 1..Len(probe.records) |-> probe.records[f[i]]]

\* C13: the mapping detect_column_types returns is the same for every order of
\* the records.
C13_OrderIndependent ==
    probe.done =>
        \A f \in Permutations(1..Len(probe.records)) :
            Range(detect_column_types(Permuted(f))) = Range(probe.types)

\* C13 witness: three records whose values for a key are of three types, in
\* an order that enters the keys differently from the reverse order.
C13_Witness ==
    /\ probe.done /\ Len(probe.records) = 3
    /\ Cardinality(Observed("v")) = 3
    /\ detect_column_types(Permuted([i \in 1..3 |-> 4 - i])) # probe.types

\* C14: the result has one item for each field name that some record has and
\* for no other, never two for a name; create_table declares each as INTEGER,
\* FLOAT or TEXT; no records give no item.
C14_TotalSingleValued ==
    probe.done =>
        /\ {probe.types[i].name : i \in 1..Len(probe.types)} =
              UNION {DOMAIN probe.records[i] : i \in 1..Len(probe.records)}
        /\ \A i, j \in 1..Len(probe.types) :
              probe.types[i].name = probe.types[j].name => i = j
        /\ \A i \in 1..Len(probe.types) :
              probe.types[i].type \in all_column_types(probe.records, probe.types[i].name)
                                         \cup {"int", "float", "str"}
        /\ Len(probe.sql) = Len(probe.types)
        /\ \A i \in 1..Len(probe.sql) :
              /\ probe.sql[i].name = probe.types[i].name
              /\ probe.sql[i].type \in {"INTEGER", "FLOAT", "TEXT"}
        /\ probe.records = <<>> => probe.types = <<>>

\* C14 witness: a field that one record lacks and the others have, as None and
\* as a bool, is given one type, and so is the field they all have.
C14_Witness ==
    /\ probe.done /\ Len(probe.records) = 3
    /\ \E i \in 1..3 : "v" \notin DOMAIN probe.records[i]
    /\ Observed("v") = {"NoneType", "bool"}
    /\ \A i \in 1..3 : "id" \in DOMAIN probe.records[i]
    /\ Len(probe.types) = 2

\* C15: columns through a handle whose flag is unset returns the empty list
\* and executes nothing, whatever the database holds; through a handle
\* whose flag is set it executes one PRAGMA table_info and returns the columns
\* the table has at that moment, in order, none for a table that was dropped.
C15_ColumnsLive ==
    last.op = "columns" =>
        /\ ~last.pre_exists => last.ret = <<>> /\ last.trace = <<>>
        /\ last.pre_exists =>
              /\ Len(last.trace) = 1 /\ last.trace[1].op = "PRAGMA"
              /\ Len(last.ret) = Len(TheTable.cols)
              /\ \A i \in 1..Len(last.ret) :
                    /\ last.ret[i].cid = i - 1
                    /\ last.ret[i].name = TheTable.cols[i].name
                    /\ last.ret[i].type = TheTable.cols[i].type
                    /\ (last.ret[i].is_pk = 1) <=> TheTable.cols[i].pk

\* C15 witness: a handle whose flag is unset returned no column for a table
\* that another handle had created with two columns.
C15_Witness ==
    /\ last.op = "columns" /\ ~last.pre_exists /\ last.pre_present
    /\ Len(TheTable.cols) = 2
    /\ last.ret = <<>>
    /\ \E h \in Handles \ {last.h} : hname[h] = last.name /\ exists[h]

\* The types of the values the records have under key.
KindsIn(records, key) ==
    {records[i][key].k : i \in {j \in 1..Len(records) : key \in DOMAIN records[j]}}
SchemaStmts(trace) == {i \in 1..Len(trace) : trace[i].op \in {"CREATE", "ALTER"}}

\* C16: insert_all of a non-empty list through a handle whose flag is unset
\* first executes CREATE TABLE with the columns inferred from the records of
\* the call, the pk marked, then adds the foreign keys; every INSERT comes
\* after all of these, and only if they all succeeded; when the call returns
\* the flag is set.  Through a handle whose flag is set insert_all executes no
\* CREATE TABLE and no ALTER TABLE.
C16_LazyCreate ==
    [][last'.op = "insert_all" =>
        LET tr == last'.trace
            fks == last'.foreign_keys
        IN  /\ exists[last'.h] => SchemaStmts(tr) = {}
            /\ ~exists[last'.h] /\ last'.records # <<>> =>
                  /\ tr[1].op = "CREATE"
                  /\ \A i \in 1..Len(tr[1].cols) :
                        /\ tr[1].cols[i].name \in UNION KeySets(last'.records)
                        /\ tr[1].cols[i].type =
                              Widened(KindsIn(last'.records, tr[1].cols[i].name))
                        /\ tr[1].cols[i].pk <=> tr[1].cols[i].name = last'.pk
                  /\ {tr[1].cols[i].name : i \in 1..Len(tr[1].cols)} =
                        UNION KeySets(last'.records) \ FkColumns(fks)
                  /\ \A i \in SchemaStmts(tr), j \in 1..Len(tr) :
                        tr[j].op = "INSERT" => i < j
                  /\ Inserts(tr) # <<>> =>
                        /\ Len(Alters(tr)) = Len(fks)
                        /\ \A i \in SchemaStmts(tr) : tr[i].err = ""
                        /\ exists'[last'.h]
                  /\ last'.err = "" => exists'[last'.h]]_vars

\* C16 witness: the first write to a table had a key with a text and an
\* integer; the column was created TEXT before the rows were written and both
\* rows are committed with text in it.
C16_Witness ==
    /\ last.op = "insert_all" /\ last.err = ""
    /\ ~last.pre_exists /\ ~last.pre_present /\ exists[last.h]
    /\ KindsIn(last.records, "v") = {"str", "int"}
    /\ last.trace[1].op = "CREATE" /\ last.trace[2].op = "INSERT"
    /\ ColDef(TheTable, "v").type = "TEXT"
    /\ Len(TheTable.rows) = 2
    /\ \A i \in 1..2 : TheTable.rows[i]["v"].k = "text"
    /\ disk = view

KeyRank(key) == CHOOSE i \in 1..Len(KeyOrder) : KeyOrder[i] = key

\* C17: every INSERT of an insert_all call names the same columns, the keys
\* of all the records of the call in sorted order, and binds for each record
\* of its chunk one value per column, in that order: the record's value under
\* the key, None if it has none.
C17_UnifiedColumns ==
    last.op = "insert_all" =>
        \A k \in 1..Len(Inserts(last.trace)) :
            LET st == Inserts(last.trace)[k]
            IN  /\ Range(st.cols) = UNION KeySets(last.records)
                /\ \A i, j \in 1..Len(st.cols) :
                      i < j => KeyRank(st.cols[i]) < KeyRank(st.cols[j])
                /\ \A i \in 1..Len(st.rows) :
                      LET n == (k - 1) * last.batch_size + i
                      IN  /\ n <= Len(last.records)
                          /\ Len(st.rows[i]) = Len(st.cols)
                          /\ \A j \in 1..Len(st.cols) :
                                st.rows[i][j] =
                                    IF st.cols[j] \in DOMAIN last.records[n]
                                    THEN last.records[n][st.cols[j]]
                                    ELSE PyNone

\* C17 witness: two chunks were written, the first of a record without the
\* key v, and its statement names v and binds None for it.
C17_Witness ==
    /\ last.op = "insert_all" /\ last.err = ""
    /\ Len(last.records) = 2 /\ Len(Inserts(last.trace)) = 2
    /\ DOMAIN last.records[1] = {"id"} /\ "v" \in DOMAIN last.records[2]
    /\ Inserts(last.trace)[1].cols = <<"id", "v">>
    /\ Inserts(last.trace)[1].rows = <<<<last.records[1]["id"], PyNone>>>>

RECURSIVE Flatten(_, _)
\* The first i chunks, one after the other.
Flatten(cs, i) == IF i = 0 THEN <<>> ELSE Flatten(cs, i - 1) \o cs[i]

\* C18: chunks cuts a list of n records with batch size b into the least
\* number m of chunks with m * b >= n; none is empty or longer than b, all
\* but the last have b records, and one after the other they are the list.
\* insert_all executes one INSERT for each chunk, in that order, with the
\* chunk's records as its rows, up to the first that raises.
C18_Chunks ==
    last.op = "insert_all" =>
        LET n == Len(last.records)
            b == last.batch_size
            cs == chunks(last.records, b)
            ins == Inserts(last.trace)
        IN  /\ Len(cs) * b >= n /\ (Len(cs) - 1) * b < n
            /\ \A i \in 1..Len(cs) :
                  /\ Len(cs[i]) >= 1 /\ Len(cs[i]) <= b
                  /\ i < Len(cs) => Len(cs[i]) = b
            /\ Flatten(cs, Len(cs)) = last.records
            /\ Len(ins) <= Len(cs)
            /\ last.err = "" => Len(ins) = Len(cs)
            /\ \A i \in 1..Len(ins) :
                  /\ ins[i].rows = [j \in 1..Len(cs[i]) |-> <<cs[i][j]["id"]>>]
                  /\ i < Len(ins) => ins[i].err = ""

\* C18 witness: five records were written with batch size 2, in three
\* statements, the last of one record.
C18_Witness ==
    /\ last.op = "insert_all" /\ last.err = ""
    /\ Len(last.records) = 5 /\ last.batch_size = 2
    /\ Len(Inserts(last.trace)) = 3
    /\ Inserts(last.trace)[3].rows = <<<<PyInt(5)>>>>
    /\ Len(disk[last.name].rows) >= 5

====
